---- MODULE Spec2Model ----
(***************************************************************************)
(* The multi-account email poller of go-tsk                                *)
(* (src/internal/config/config.go, package scheduler): EmailPoller with    *)
(* its per-account AccountState, Start, Stop, pollAccount and poll.        *)
(*                                                                         *)
(* Every goroutine is a process with a program counter.  pollAccount runs  *)
(* once per (Start call, enabled account); the pair is the goroutine's     *)
(* identity.  The mutex p.mu is the variable mu.  An unrecovered panic     *)
(* ends the program: once panicked is set no action is enabled.            *)
(*                                                                         *)
(* Spec and SpecSingle follow the goroutines, with the rule loop of poll   *)
(* as one step; FairSpec adds the scheduling; SpecRules follows the rule   *)
(* loop of one poll message by message and rule by rule.                   *)
(***************************************************************************)
EXTENDS Integers, Sequences, FiniteSets, TLC

\* Bounds of the model.
MaxStarts == 2      \* calls of Start
MaxLoops == 2       \* pollAccount goroutines alive at once: Start is called when its own fit
MaxTime == 1        \* largest reading of the clock
MaxEmails == 2      \* messages one FetchNewEmails returns
MaxRules == 2       \* cfg.Rules

Accounts == {"primary", "second"}       \* cfg.EmailAccounts, by ID
StartIds == 1..MaxStarts
Loops == StartIds \X Accounts           \* pollAccount goroutines
NoHolder == <<0, "none">>               \* p.mu unlocked

AcctOf(l) == l[2]
StartOf(l) == l[1]

VARIABLES
    enabled,        \* account.Enabled, by account ID (read-only configuration)
    accountState,   \* EmailPoller.accountState
    sessions,       \* per account, the GmailClients created: Close calls on each
    mu,             \* holder of EmailPoller.mu
    ctxDone,        \* ctx.Done() is closed
    allWaiting,     \* cancel() ran while every live loop was in its select
    now,            \* last reading of time.Now()
    pc,             \* position of each pollAccount goroutine
    tickC,          \* a tick is buffered in ticker.C
    cycle,          \* what the goroutine's latest poll call did
    winners,        \* loops that set isActive since it was last false
    spc,            \* position of each Start call
    sres,           \* what Start returned
    wg,             \* Start's WaitGroup counter
    errChan,        \* Start's errChan buffer
    panicked,       \* a goroutine panicked
    rules,          \* p.config.Rules, in the rule loop of one poll
    emails,         \* what FetchNewEmails returned to that poll
    ei,             \* index of the message the outer loop of poll is at
    ri,             \* index of the rule the inner loop of poll is at
    calls           \* the ApplyLabel calls of that poll, with their results

pollerVars ==
    <<enabled, accountState, sessions, mu, ctxDone, allWaiting, now, pc, tickC,
      cycle, winners, spc, sres, wg, errChan, panicked>>
ruleVars == <<rules, emails, ei, ri, calls>>
vars == <<pollerVars, ruleVars>>

acctVars == <<accountState, sessions, winners>>
startVars == <<spc, sres, wg, errChan>>
loopVars == <<pc, tickC, cycle>>

\* AccountState as NewEmailPoller builds it: zero lastSync, isActive false,
\* an open stopChan, a nil client (0).
NewAccountState == [lastSync |-> 0, isActive |-> FALSE, stopChan |-> "open", client |-> 0]

\* The record of one poll call: how it ended, whether it reached the rule
\* loop, whether it called ApplyLabel, whether it stored lastSync.
NoCycle ==
    [outcome |-> "none", rules |-> FALSE, acted |-> FALSE, wrote |-> FALSE,
     began |-> 0]
NewCycle ==
    [outcome |-> "running", rules |-> FALSE, acted |-> FALSE, wrote |-> FALSE,
     began |-> now]

\* The state NewEmailPoller returns, for each configuration of the enabled
\* flags; the two accounts are alike, so of the two configurations with one
\* enabled account only one is taken.
InitPoller ==
    /\ enabled \in [Accounts -> BOOLEAN]
    /\ enabled["second"] => enabled["primary"]
    /\ accountState = [a \in Accounts |-> NewAccountState]
    /\ sessions = [a \in Accounts |-> <<>>]
    /\ mu = NoHolder
    /\ ctxDone = FALSE
    /\ allWaiting = FALSE
    /\ now = 0
    /\ pc = [l \in Loops |-> "none"]
    /\ tickC = [l \in Loops |-> FALSE]
    /\ cycle = [l \in Loops |-> NoCycle]
    /\ winners = [a \in Accounts |-> 0]
    /\ spc = [s \in StartIds |-> "idle"]
    /\ sres = [s \in StartIds |-> "none"]
    /\ wg = [s \in StartIds |-> 0]
    /\ errChan = [s \in StartIds |-> <<>>]
    /\ panicked = FALSE

\* The goroutines of Start, Stop and pollAccount are followed with the rule
\* loop of poll taken as one step (PollRules); its variables stay empty.
Init ==
    /\ InitPoller
    /\ rules = <<>>
    /\ emails = <<>>
    /\ ei = 1
    /\ ri = 1
    /\ calls = <<>>

----------------------------------------------------------------------------
\* Start

\* A Start that polls the disabled accounts too.
SkippedNever(a) == FALSE

\* Start's loop skips an account that is not enabled.
Skipped(a) == ~enabled[a]

\* The pollAccount goroutines that have been started and have not returned.
Live == {l \in Loops : pc[l] \notin {"none", "done"}}

\* Start, up to the range over errChan: one goroutine per enabled account,
\* each counted in wg.  Calls are numbered in the order they are made.
StartCall(s) ==
    /\ ~panicked
    /\ spc[s] = "idle"
    /\ Cardinality(Live) + Cardinality({a \in Accounts : ~Skipped(a)}) <= MaxLoops
    /\ \A r \in StartIds : r < s => spc[r] # "idle"
    /\ spc' = [spc EXCEPT ![s] = "range"]
    /\ wg' = [wg EXCEPT ![s] = Cardinality({a \in Accounts : ~Skipped(a)})]
    /\ pc' = [l \in Loops |->
                IF StartOf(l) = s /\ ~Skipped(AcctOf(l)) THEN "lock" ELSE pc[l]]
    /\ UNCHANGED <<ruleVars, enabled, acctVars, mu, ctxDone, allWaiting, now, tickC, cycle,
                   sres, errChan, panicked>>

\* range errChan receives an error: Start returns it.
StartReturnErr(s) ==
    /\ ~panicked
    /\ spc[s] = "range"
    /\ errChan[s] # <<>>
    /\ spc' = [spc EXCEPT ![s] = "done"]
    /\ sres' = [sres EXCEPT ![s] = Head(errChan[s])]
    /\ errChan' = [errChan EXCEPT ![s] = Tail(errChan[s])]
    /\ UNCHANGED <<ruleVars, enabled, acctVars, mu, ctxDone, allWaiting, now, loopVars,
                   wg, panicked>>

\* wg.Wait() has returned in Start's second goroutine, which closes errChan;
\* range errChan ends on the closed, empty channel and Start returns nil.
StartReturnNil(s) ==
    /\ ~panicked
    /\ spc[s] = "range"
    /\ errChan[s] = <<>>
    /\ wg[s] = 0
    /\ spc' = [spc EXCEPT ![s] = "done"]
    /\ sres' = [sres EXCEPT ![s] = "nil"]
    /\ UNCHANGED <<ruleVars, enabled, acctVars, mu, ctxDone, allWaiting, now, loopVars,
                   wg, errChan, panicked>>

\* main's signal handler: cancel().
Cancel ==
    /\ ~panicked
    /\ ~ctxDone
    /\ ctxDone' = TRUE
    /\ allWaiting' = (Live # {} /\ \A l \in Live : pc[l] = "select")
    /\ UNCHANGED <<ruleVars, enabled, acctVars, mu, now, loopVars, startVars, panicked>>

----------------------------------------------------------------------------
\* pollAccount

\* pollAccount returns res: the deferred ticker.Stop(), then the goroutine of
\* Start sends a non-nil error to errChan and runs the deferred wg.Done().
\* errChan has room for every send; once Start has returned nothing receives
\* from it, and what is sent then is not kept.
Return(l, res) ==
    /\ pc' = [pc EXCEPT ![l] = "done"]
    /\ tickC' = [tickC EXCEPT ![l] = FALSE]
    /\ cycle' = [cycle EXCEPT ![l] = NoCycle]
    /\ errChan' = [errChan EXCEPT ![StartOf(l)] =
                     IF res = "nil" \/ spc[StartOf(l)] = "done" THEN @ ELSE Append(@, res)]
    /\ wg' = [wg EXCEPT ![StartOf(l)] = @ - 1]

\* A pollAccount that tests and sets isActive without waiting for p.mu.
pollAccountNoLock(l) == TRUE

\* p.mu.Lock() at the head of pollAccount returns once no goroutine holds p.mu.
pollAccountLock(l) == mu = NoHolder

\* p.mu.Lock(); if state.isActive { p.mu.Unlock(); return error }
PollAccountActive(l) ==
    /\ ~panicked
    /\ pc[l] = "lock"
    /\ pollAccountLock(l)
    /\ accountState[AcctOf(l)].isActive
    /\ Return(l, "active")
    /\ UNCHANGED <<ruleVars, enabled, acctVars, mu, ctxDone, allWaiting, now,
                   spc, sres, panicked>>

\* p.mu.Lock(); the test finds isActive false
PollAccountInactive(l) ==
    /\ ~panicked
    /\ pc[l] = "lock"
    /\ pollAccountLock(l)
    /\ ~accountState[AcctOf(l)].isActive
    /\ mu' = l
    /\ pc' = [pc EXCEPT ![l] = "set"]
    /\ UNCHANGED <<ruleVars, enabled, acctVars, ctxDone, allWaiting, now, tickC, cycle,
                   startVars, panicked>>

\* state.isActive = true; p.mu.Unlock(); the ticker is created and the
\* initial poll is called.
PollAccountSet(l) ==
    /\ ~panicked
    /\ pc[l] = "set"
    /\ accountState' = [accountState EXCEPT ![AcctOf(l)].isActive = TRUE]
    /\ winners' = [winners EXCEPT ![AcctOf(l)] = @ + 1]
    /\ mu' = NoHolder
    /\ pc' = [pc EXCEPT ![l] = "poll"]
    /\ cycle' = [cycle EXCEPT ![l] = NewCycle]
    /\ UNCHANGED <<ruleVars, enabled, sessions, ctxDone, allWaiting, now, tickC,
                   startVars, panicked>>

----------------------------------------------------------------------------
\* poll

\* A pollAccount that returns when its poll call has ended.
PollEndsReturns(l, o) ==
    /\ pc' = [pc EXCEPT ![l] = "done"]
    /\ cycle' = [cycle EXCEPT ![l].outcome = o]

\* The poll call of goroutine l ends with outcome o and pollAccount, which
\* only logs a poll error, goes on to its select.
PollEnds(l, o) ==
    /\ pc' = [pc EXCEPT ![l] = "select"]
    /\ cycle' = [cycle EXCEPT ![l].outcome = o]

\* p.mu.Lock(); lastSync := state.lastSync; p.mu.Unlock(); then
\* if state.client == nil, read without the lock.
PollBegin(l) ==
    /\ ~panicked
    /\ pc[l] = "poll"
    /\ mu = NoHolder
    /\ pc' = [pc EXCEPT ![l] =
                IF accountState[AcctOf(l)].client = 0 THEN "create" ELSE "fetch"]
    /\ UNCHANGED <<ruleVars, enabled, acctVars, mu, ctxDone, allWaiting, now, tickC, cycle,
                   startVars, panicked>>

\* A poll that stores the client before it is connected and authenticated.
SessionErrorKeepsClient(l) ==
    /\ PollEnds(l, "session")
    /\ sessions' = [sessions EXCEPT ![AcctOf(l)] = Append(@, 0)]
    /\ accountState' = [accountState EXCEPT
                          ![AcctOf(l)].client = Len(sessions[AcctOf(l)]) + 1]

\* The returns of poll on a failed NewGmailClient, Connect or Authenticate:
\* all of them come before state.client = client.
SessionError(l) ==
    /\ PollEnds(l, "session")
    /\ UNCHANGED <<accountState, sessions>>

\* NewGmailClient, Connect or Authenticate fails: poll returns the error
\* and state.client stays as it is.
PollCreateFail(l) ==
    /\ ~panicked
    /\ pc[l] = "create"
    /\ SessionError(l)
    /\ UNCHANGED <<ruleVars, enabled, winners, mu, ctxDone, allWaiting, now, tickC,
                   startVars, panicked>>

\* The client is created, connected and authenticated: state.client = client,
\* written without the lock.
PollCreateOk(l) ==
    /\ ~panicked
    /\ pc[l] = "create"
    /\ sessions' = [sessions EXCEPT ![AcctOf(l)] = Append(@, 0)]
    /\ accountState' = [accountState EXCEPT
                          ![AcctOf(l)].client = Len(sessions[AcctOf(l)]) + 1]
    /\ pc' = [pc EXCEPT ![l] = "fetch"]
    /\ UNCHANGED <<ruleVars, enabled, winners, mu, ctxDone, allWaiting, now, tickC, cycle,
                   startVars, panicked>>

\* The GmailClient that state.client names has had Close called on it.
ClientClosed(a) == sessions[a][accountState[a].client] > 0

\* A poll that logs the fetch error and goes on to the rules.
FetchErrorIgnored(l) ==
    /\ pc' = [pc EXCEPT ![l] = "rules"]
    /\ cycle' = [cycle EXCEPT ![l].outcome = "fetch"]

\* FetchNewEmails returned an error: poll returns it.
FetchError(l) == PollEnds(l, "fetch")

\* state.client.FetchNewEmails fails: always on a closed connection, and
\* possibly on an open one.
PollFetchFail(l) ==
    /\ ~panicked
    /\ pc[l] = "fetch"
    /\ FetchError(l)
    /\ UNCHANGED <<ruleVars, enabled, acctVars, mu, ctxDone, allWaiting, now, tickC,
                   startVars, panicked>>

PollFetchOk(l) ==
    /\ ~panicked
    /\ pc[l] = "fetch"
    /\ ~ClientClosed(AcctOf(l))
    /\ pc' = [pc EXCEPT ![l] = "rules"]
    /\ UNCHANGED <<ruleVars, enabled, acctVars, mu, ctxDone, allWaiting, now, tickC, cycle,
                   startVars, panicked>>

\* The loops over emails and rules: ApplyLabel is called for every
\* (message, rule) pair that matches, if any; a failing ApplyLabel is only
\* logged.
PollRules(l) ==
    /\ ~panicked
    /\ pc[l] = "rules"
    /\ \E matched \in BOOLEAN :
         cycle' = [cycle EXCEPT ![l].rules = TRUE, ![l].acted = matched]
    /\ pc' = [pc EXCEPT ![l] = "write"]
    /\ UNCHANGED <<ruleVars, enabled, acctVars, mu, ctxDone, allWaiting, now, tickC,
                   startVars, panicked>>

\* A clock that can be set back between two readings.
TimeNowSetBack(t) == t \in 0..MaxTime

\* time.Now() returns t: the clock has not gone back since it was last read.
TimeNow(t) == t \in now..MaxTime /\ t <= now + 1

\* p.mu.Lock(); state.lastSync = time.Now(); p.mu.Unlock(); return nil.
PollWriteSync(l) ==
    /\ ~panicked
    /\ pc[l] = "write"
    /\ mu = NoHolder
    /\ \E t \in 0..MaxTime :
         /\ TimeNow(t)
         /\ now' = t
         /\ accountState' = [accountState EXCEPT ![AcctOf(l)].lastSync = t]
    /\ pc' = [pc EXCEPT ![l] = "select"]
    /\ cycle' = [cycle EXCEPT ![l].outcome = "ok", ![l].wrote = TRUE]
    /\ UNCHANGED <<ruleVars, enabled, sessions, winners, mu, ctxDone, allWaiting, tickC,
                   startVars, panicked>>

----------------------------------------------------------------------------
\* The select of pollAccount; Go picks any one of the ready cases.

\* The runtime delivers a tick to ticker.C (capacity 1).  The channel is read
\* only by the select, so a tick that arrives during a poll is delivered
\* here when the goroutine is back at its select.
TimerTick(l) ==
    /\ ~panicked
    /\ pc[l] = "select"
    /\ ~tickC[l]
    /\ tickC' = [tickC EXCEPT ![l] = TRUE]
    /\ UNCHANGED <<ruleVars, enabled, acctVars, mu, ctxDone, allWaiting, now, pc, cycle,
                   startVars, panicked>>

\* case <-ctx.Done(): return ctx.Err()
SelectCancelled(l) ==
    /\ ~panicked
    /\ pc[l] = "select"
    /\ ctxDone
    /\ Return(l, "cancelled")
    /\ UNCHANGED <<ruleVars, enabled, acctVars, mu, ctxDone, allWaiting, now,
                   spc, sres, panicked>>

\* case <-state.stopChan: return nil
SelectStopped(l) ==
    /\ ~panicked
    /\ pc[l] = "select"
    /\ accountState[AcctOf(l)].stopChan = "closed"
    /\ Return(l, "nil")
    /\ UNCHANGED <<ruleVars, enabled, acctVars, mu, ctxDone, allWaiting, now,
                   spc, sres, panicked>>

\* case <-ticker.C: poll
SelectTick(l) ==
    /\ ~panicked
    /\ pc[l] = "select"
    /\ tickC[l]
    /\ tickC' = [tickC EXCEPT ![l] = FALSE]
    /\ pc' = [pc EXCEPT ![l] = "poll"]
    /\ cycle' = [cycle EXCEPT ![l] = NewCycle]
    /\ UNCHANGED <<ruleVars, enabled, acctVars, mu, ctxDone, allWaiting, now,
                   startVars, panicked>>

----------------------------------------------------------------------------
\* Stop

\* The orders in which a range over the accountState map may visit it.
MapOrders ==
    {o \in [1..Cardinality(Accounts) -> Accounts] : \A i, j \in DOMAIN o : o[i] = o[j] => i = j}

\* state.client.Close() on the client of account a.
CloseClient(se, st, a) ==
    IF st[a].client = 0 THEN se ELSE [se EXCEPT ![a][st[a].client] = @ + 1]

\* The body of Stop's loop over the accounts in order o, from account
\* state st and clients se.  close(state.stopChan) on a closed channel
\* panics, and the loop is left where it is.
RECURSIVE StopRange(_, _, _)
StopRange(o, st, se) ==
    IF o = <<>> THEN [accountState |-> st, sessions |-> se, panicked |-> FALSE]
    ELSE LET a == Head(o) IN
         IF ~st[a].isActive THEN StopRange(Tail(o), st, se)
         ELSE IF st[a].stopChan = "closed"
              THEN [accountState |-> st, sessions |-> CloseClient(se, st, a),
                    panicked |-> TRUE]
              ELSE StopRange(Tail(o),
                             [st EXCEPT ![a].stopChan = "closed", ![a].isActive = FALSE],
                             CloseClient(se, st, a))

\* Stop, all of it under p.mu; the deferred Unlock runs on a panic too.
Stop ==
    /\ ~panicked
    /\ mu = NoHolder
    /\ \E o \in MapOrders :
         LET r == StopRange(o, accountState, sessions) IN
           /\ accountState' = r.accountState
           /\ sessions' = r.sessions
           /\ panicked' = r.panicked
           /\ winners' = [a \in Accounts |->
                            IF r.accountState[a].isActive THEN winners[a] ELSE 0]
    /\ UNCHANGED <<ruleVars, enabled, mu, ctxDone, allWaiting, now, loopVars, startVars>>

----------------------------------------------------------------------------
Next ==
    \/ \E s \in StartIds : StartCall(s)
    \/ \E s \in StartIds : StartReturnErr(s)
    \/ \E s \in StartIds : StartReturnNil(s)
    \/ Cancel
    \/ Stop
    \/ \E l \in Loops : PollAccountActive(l)
    \/ \E l \in Loops : PollAccountInactive(l)
    \/ \E l \in Loops : PollAccountSet(l)
    \/ \E l \in Loops : PollBegin(l)
    \/ \E l \in Loops : PollCreateFail(l)
    \/ \E l \in Loops : PollCreateOk(l)
    \/ \E l \in Loops : PollFetchFail(l)
    \/ \E l \in Loops : PollFetchOk(l)
    \/ \E l \in Loops : PollRules(l)
    \/ \E l \in Loops : PollWriteSync(l)
    \/ \E l \in Loops : TimerTick(l)
    \/ \E l \in Loops : SelectCancelled(l)
    \/ \E l \in Loops : SelectStopped(l)
    \/ \E l \in Loops : SelectTick(l)

\* Every configuration: no account enabled, one, both.
Spec == Init /\ [][Next]_vars

\* The configuration of DefaultConfig, plus a disabled account: "primary"
\* is enabled and "second" is not.
InitSingle == Init /\ enabled = [a \in Accounts |-> a = "primary"]
SpecSingle == InitSingle /\ [][Next]_vars

\* Scheduling.  A goroutine that can take a step of pollAccount or poll
\* takes it in the end (every poll operation finishes), and so does the
\* goroutine of a Start that can return.  The select of pollAccount picks
\* at random among its ready cases, so a case that is ready again and again
\* is picked in the end.  Start, Stop, cancel() and the ticker are the
\* caller's and the clock's: nothing obliges them to happen.
Fairness ==
    /\ \A l \in Loops :
         /\ WF_vars(\/ PollAccountActive(l) \/ PollAccountInactive(l)
                    \/ PollAccountSet(l) \/ PollBegin(l)
                    \/ PollCreateFail(l) \/ PollCreateOk(l)
                    \/ PollFetchFail(l) \/ PollFetchOk(l)
                    \/ PollRules(l) \/ PollWriteSync(l))
         /\ SF_vars(SelectCancelled(l))
         /\ SF_vars(SelectStopped(l))
    /\ \A s \in StartIds : WF_vars(StartReturnErr(s) \/ StartReturnNil(s))

FairSpec == SpecSingle /\ Fairness

----------------------------------------------------------------------------
\* The rule loop of poll, message by message and rule by rule.  A string is
\* the sequence of its characters.

\* Subjects of fetched messages: "Job", "ajOB", "lunch", "jo".
Subjects ==
    { <<"J", "o", "b">>, <<"a", "j", "O", "B">>, <<"l", "u", "n", "c", "h">>,
      <<"j", "o">> }

\* Rules: a fragment in lower case, one in upper case, and an empty one.
RuleSet ==
    { [SubjectContains |-> <<"j", "o", "b">>, Label |-> "imp"],
      [SubjectContains |-> <<"U", "N">>, Label |-> "food"],
      [SubjectContains |-> <<>>, Label |-> "all"] }

\* The results of FetchNewEmails: the UID of a message is its place in the
\* mailbox.
EmailLists ==
    UNION { { [i \in 1..n |-> [UID |-> i, Subject |-> f[i]]] :
                f \in [1..n -> Subjects] } : n \in 0..MaxEmails }

RuleLists == UNION { [1..n -> RuleSet] : n \in 0..MaxRules }

\* unicode.ToLower on the letters used here.
LowerRune(c) ==
    CASE c = "J" -> "j"
      [] c = "O" -> "o"
      [] c = "B" -> "b"
      [] c = "U" -> "u"
      [] c = "N" -> "n"
      [] OTHER -> c

\* strings.ToLower
ToLower(s) == [i \in DOMAIN s |-> LowerRune(s[i])]

\* strings.Contains
Contains(s, substr) ==
    \E i \in 0..(Len(s) - Len(substr)) : SubSeq(s, i + 1, i + Len(substr)) = substr

\* A comparison that leaves the case of the letters alone.
containsExact(s, substr) == Contains(s, substr)

containsIgnoreCase(s, substr) == Contains(ToLower(s), ToLower(substr))

\* A poll whose fetch has returned emails is at the head of its two loops.
InitRules ==
    /\ InitPoller
    /\ enabled = [a \in Accounts |-> a = "primary"]
    /\ rules \in RuleLists
    /\ emails \in EmailLists
    /\ ei = 1
    /\ ri = 1
    /\ calls = <<>>

\* The rule at ri matches the message at ei.
RuleMatches ==
    /\ ei <= Len(emails)
    /\ ri <= Len(rules)
    /\ containsIgnoreCase(emails[ei].Subject, rules[ri].SubjectContains)

\* state.client.ApplyLabel(email.UID, rule.Label) with result err, then the
\* next rule.
ApplyLabel(err) ==
    /\ calls' = Append(calls, [UID |-> emails[ei].UID, Label |-> rules[ri].Label,
                                err |-> err])
    /\ ri' = ri + 1
    /\ UNCHANGED <<pollerVars, rules, emails, ei>>

\* ApplyLabel succeeds: the label is logged as applied.
RuleApplyOk == RuleMatches /\ ApplyLabel(FALSE)

\* ApplyLabel fails: the error is logged and the loop continues.
RuleApplyFail == RuleMatches /\ ApplyLabel(TRUE)

\* The rule does not match: nothing is done for it.
RuleNoMatch ==
    /\ ei <= Len(emails)
    /\ ri <= Len(rules)
    /\ ~containsIgnoreCase(emails[ei].Subject, rules[ri].SubjectContains)
    /\ ri' = ri + 1
    /\ UNCHANGED <<pollerVars, rules, emails, ei, calls>>

\* The rules are done for this message: on to the next message.
RuleNextEmail ==
    /\ ei <= Len(emails)
    /\ ri > Len(rules)
    /\ ei' = ei + 1
    /\ ri' = 1
    /\ UNCHANGED <<pollerVars, rules, emails, calls>>

NextRules ==
    \/ RuleApplyOk
    \/ RuleApplyFail
    \/ RuleNoMatch
    \/ RuleNextEmail

SpecRules == InitRules /\ [][NextRules]_vars

----------------------------------------------------------------------------
\* Properties

\* Positions of a pollAccount goroutine that found isActive false and has
\* not returned, and those of them where it has set isActive.
Passed == {"set", "poll", "create", "fetch", "rules", "write", "select"}
Running == Passed \ {"set"}
LoopsOf(a) == {l \in Loops : AcctOf(l) = a}

\* C1: of the pollAccount calls that race for an inactive account exactly one
\* sets isActive: no account has two loops that set isActive since it was
\* last false, and a call that returns the "polling already active" error
\* does so while one loop holds the account, leaving the account state and
\* the sessions as they were (no session created, no lastSync written).
C1_ExactlyOneStartsPolling ==
    [][/\ \A a \in Accounts : winners'[a] <= 1
       /\ \A l \in Loops :
            (pc[l] = "lock" /\ pc'[l] = "done") =>
                /\ winners[AcctOf(l)] = 1
                /\ accountState' = accountState
                /\ sessions' = sessions
                /\ cycle[l] = NoCycle
                /\ spc[StartOf(l)] = "range" =>
                      errChan'[StartOf(l)] = Append(errChan[StartOf(l)], "active")]_vars

\* Two Start calls raced for "primary": the loop of one is polling, the other
\* Start has returned the "polling already active" error of its own.
C1_Witness ==
    \E s1, s2 \in StartIds :
        /\ s1 # s2
        /\ pc[<<s1, "primary">>] \in Running
        /\ pc[<<s2, "primary">>] = "done"
        /\ sres[s2] = "active"

\* C2: no account ever has two pollAccount calls that passed the isActive
\* check and have not returned.
C2_AtMostOneLoopPerAccount ==
    \A a \in Accounts : Cardinality({l \in LoopsOf(a) : pc[l] \in Passed}) <= 1

\* C3: when the cancellation fired while every live loop was waiting in its
\* select, a Start that has returned, and not with the error of a loop that
\* failed to start, has returned nil.
C3_CancellationIsNotAFailure ==
    \A s \in StartIds :
        (spc[s] = "done" /\ allWaiting /\ sres[s] # "active") => sres[s] = "nil"

\* C4: when Start has returned after the cancellation fired (and not with
\* the error of a loop that failed to start), every loop it spawned has
\* returned.
C4_LoopsUnwoundWhenStartReturns ==
    \A s \in StartIds :
        (spc[s] = "done" /\ ctxDone /\ sres[s] # "active") =>
            \A a \in Accounts : pc[<<s, a>>] \in {"none", "done"}

\* C5: isActive is true exactly while a polling loop of the account is
\* running.
C5_ActiveIffLoopRunning ==
    \A a \in Accounts :
        accountState[a].isActive <=> (\E l \in LoopsOf(a) : pc[l] \in Running)

\* C6: in every state, Stop called there closes the session of every account
\* that is active and has one exactly once and leaves the account inactive,
\* and a second Stop right after it changes nothing and closes nothing.
C6_StopClosesOnceThenNoOp ==
    \A o1, o2 \in MapOrders :
        LET r1 == StopRange(o1, accountState, sessions)
            r2 == StopRange(o2, r1.accountState, r1.sessions)
        IN /\ \A a \in Accounts :
                (accountState[a].isActive /\ accountState[a].client # 0) =>
                    /\ ~r1.panicked
                    /\ ~r1.accountState[a].isActive
                    /\ r1.sessions[a][accountState[a].client]
                         = sessions[a][accountState[a].client] + 1
           /\ ~r1.panicked =>
                (~r2.panicked /\ r2.accountState = r1.accountState
                              /\ r2.sessions = r1.sessions)

\* C7: no Stop call panics by closing a stop channel that is closed already.
C7_StopNeverPanics == ~panicked

\* C8: a Start call made after another Start call returns an error and none
\* of its pollAccount calls gets past the isActive check.
C8_SecondStartFails ==
    \A s \in StartIds :
        s > 1 => /\ sres[s] # "nil"
                 /\ \A a \in Accounts : pc[<<s, a>>] \notin Passed

\* C9: an account that is not enabled never has a pollAccount goroutine, a
\* session or isActive set.
C9_DisabledNeverPolled ==
    \A a \in Accounts :
        ~enabled[a] =>
            /\ ~accountState[a].isActive
            /\ accountState[a].client = 0
            /\ sessions[a] = <<>>
            /\ \A l \in LoopsOf(a) : pc[l] = "none"

\* Start has returned and the enabled account was polled, beside an account
\* that is not enabled.
C9_Witness ==
    /\ spc[1] = "done"
    /\ \E a \in Accounts : ~enabled[a]
    /\ \E b \in Accounts : accountState[b].lastSync > 0

\* C10: a poll whose fetch failed has returned the error to pollAccount
\* without entering the rule loop, calling ApplyLabel or storing lastSync,
\* and the step in which the fetch fails leaves every account's state as
\* it was.
C10_FailedFetchLeavesLastSync ==
    [][\A l \in Loops :
         /\ cycle'[l].outcome = "fetch" =>
               /\ pc'[l] = "select"
               /\ ~cycle'[l].rules /\ ~cycle'[l].acted /\ ~cycle'[l].wrote
         /\ (pc[l] = "fetch" /\ cycle'[l].outcome = "fetch") =>
               accountState' = accountState]_vars

\* A poll of an account that already has a lastSync ended on a fetch error.
C10_Witness ==
    \E l \in Loops :
        /\ cycle[l].outcome = "fetch"
        /\ accountState[AcctOf(l)].lastSync > 0

\* C11: a poll in which the creation of the session failed has returned the
\* error to pollAccount without fetching, entering the rule loop or storing
\* lastSync; the step in which the creation fails leaves state.client,
\* lastSync and the sessions as they were; and a poll that finds
\* state.client nil goes to create a session.
C11_FailedSessionIsRetried ==
    [][\A l \in Loops :
         /\ cycle'[l].outcome = "session" =>
               /\ pc'[l] = "select"
               /\ ~cycle'[l].rules /\ ~cycle'[l].acted /\ ~cycle'[l].wrote
         /\ (pc[l] = "create" /\ cycle'[l].outcome = "session") =>
               /\ accountState' = accountState
               /\ sessions' = sessions
         /\ (pc[l] = "poll" /\ pc'[l] # "poll"
                /\ accountState[AcctOf(l)].client = 0) =>
               pc'[l] = "create"]_vars

\* A poll failed to create the session, the account has none, and the tick
\* that starts the next poll is pending.
C11_Witness ==
    \E l \in Loops :
        /\ cycle[l].outcome = "session"
        /\ tickC[l]
        /\ accountState[AcctOf(l)].client = 0
        /\ sessions[AcctOf(l)] = <<>>

\* C12: no account's lastSync ever decreases; a poll whose fetch succeeded
\* goes through the rule loop to the store of lastSync, whether or not
\* ApplyLabel was called, and stores a time that is not earlier than the
\* time at which that poll began.
C12_LastSyncMonotone ==
    [][/\ \A a \in Accounts :
            accountState'[a].lastSync >= accountState[a].lastSync
       /\ \A l \in Loops :
            /\ (pc[l] = "rules" /\ pc'[l] # "rules") => pc'[l] = "write"
            /\ (pc[l] = "write" /\ pc'[l] # "write") =>
                  /\ cycle'[l].wrote
                  /\ accountState'[AcctOf(l)].lastSync >= cycle[l].began
                  /\ accountState'[AcctOf(l)].lastSync >= now]_vars

\* A poll that began after an earlier one had stored lastSync has itself
\* stored lastSync, without a call of ApplyLabel.
C12_Witness ==
    \E l \in Loops :
        /\ cycle[l].wrote /\ ~cycle[l].acted
        /\ cycle[l].began > 0
        /\ accountState[AcctOf(l)].lastSync >= cycle[l].began

\* C13: a poll that fails, the initial one or one started by a tick, leaves
\* its loop waiting in the select and sends nothing to Start, and no Start
\* returns the error of a poll; a polling loop returns only from its select,
\* when the context is cancelled or the stop channel of its account is
\* closed.
C13_PollFailureKeepsLoop ==
    [][/\ \A l \in Loops :
            /\ (pc[l] \in Running /\ pc'[l] = "done") =>
                  /\ pc[l] = "select"
                  /\ ctxDone \/ accountState[AcctOf(l)].stopChan = "closed"
            /\ (cycle[l].outcome = "running"
                   /\ cycle'[l].outcome \in {"session", "fetch"}) =>
                  /\ pc'[l] = "select"
                  /\ UNCHANGED startVars
       /\ \A s \in StartIds :
            sres'[s] \in {"none", "nil", "active", "cancelled"}]_vars

\* A poll started by a tick has failed, and its loop is waiting with nothing
\* sent to Start, no cancellation and no stop signal.
C13_Witness ==
    \E l \in Loops :
        /\ pc[l] = "select"
        /\ cycle[l].outcome \in {"session", "fetch"}
        /\ cycle[l].began > 0
        /\ spc[StartOf(l)] = "range" /\ errChan[StartOf(l)] = <<>>
        /\ ~ctxDone
        /\ accountState[AcctOf(l)].stopChan = "open"

\* Two letters that differ in case at most.
SameLetter(c, d) ==
    \/ c = d
    \/ <<c, d>> \in {<<"j", "J">>, <<"o", "O">>, <<"b", "B">>, <<"u", "U">>,
                     <<"n", "N">>}
    \/ <<d, c>> \in {<<"j", "J">>, <<"o", "O">>, <<"b", "B">>, <<"u", "U">>,
                     <<"n", "N">>}

\* frag occurs in subject at some offset, letter by letter up to case.
FoldSubstring(frag, subject) ==
    \E off \in 0..(Len(subject) - Len(frag)) :
        \A k \in 1..Len(frag) : SameLetter(frag[k], subject[off + k])

\* The (message, rule) pairs the loops have gone through when they are at
\* (e, r), in the order of the loops.
RECURSIVE PairsBefore(_, _)
PairsBefore(e, r) ==
    IF e = 1 /\ r = 1 THEN <<>>
    ELSE IF r = 1 THEN PairsBefore(e - 1, Len(rules) + 1)
    ELSE Append(PairsBefore(e, r - 1), <<e, r - 1>>)

\* Of a sequence of pairs, those whose rule fragment occurs in the subject.
RECURSIVE MatchingPairs(_)
MatchingPairs(ps) ==
    IF ps = <<>> THEN <<>>
    ELSE LET p == Head(ps)
         IN (IF FoldSubstring(rules[p[2]].SubjectContains, emails[p[1]].Subject)
             THEN <<p>> ELSE <<>>) \o MatchingPairs(Tail(ps))

\* C14: at every point of the two loops of a poll, the ApplyLabel calls
\* issued so far are, in the order of the loops (messages as fetched, rules
\* as declared), one call with the UID of the message and the label of the
\* rule for every pair gone through whose rule fragment occurs in the
\* subject up to case, and none for the other pairs, whichever of the
\* calls failed.
C14_LabelsFollowRules ==
    LET want == MatchingPairs(PairsBefore(ei, ri))
    IN /\ Len(calls) = Len(want)
       /\ \A i \in DOMAIN calls :
            /\ calls[i].UID = emails[want[i][1]].UID
            /\ calls[i].Label = rules[want[i][2]].Label

\* The loops are done: an ApplyLabel call failed, a later one for another
\* message succeeded, a subject matched a fragment in another case, and
\* some pair did not match.
C14_Witness ==
    /\ ei = Len(emails) + 1
    /\ \E i, j \in DOMAIN calls :
         i < j /\ calls[i].err /\ ~calls[j].err /\ calls[i].UID # calls[j].UID
    /\ \E i \in DOMAIN calls :
         \E e \in DOMAIN emails, r \in DOMAIN rules :
            /\ calls[i].UID = emails[e].UID /\ calls[i].Label = rules[r].Label
            /\ ~containsExact(emails[e].Subject, rules[r].SubjectContains)
    /\ Len(calls) < Len(emails) * Len(rules)

\* Every pollAccount goroutine has returned and no Start is waiting.
AllReturned ==
    /\ \A l \in Loops : pc[l] \in {"none", "done"}
    /\ \A s \in StartIds : spc[s] # "range"

\* C15: once the context is cancelled, every pollAccount goroutine
\* eventually returns and every Start that was called eventually returns.
C15_CancelledLoopsReturn == ctxDone ~> AllReturned

\* The same, for the behaviours in which the program does not end with a
\* panic before that.
CancelledLoopsReturnUnlessPanicked == ctxDone ~> (panicked \/ AllReturned)

\* C16: a polling loop that is at its select when the context is cancelled
\* or the stop channel of its account is closed does not start another
\* poll: it stays there or returns.
C16_NoPollAfterCancelOrStop ==
    [][\A l \in Loops :
         (/\ pc[l] = "select"
          /\ ctxDone \/ accountState[AcctOf(l)].stopChan = "closed") =>
            pc'[l] \in {"select", "done"}]_vars

\* C17: isActive, lastSync and client of an account change only in a step
\* of a goroutine that holds p.mu: one that takes the free lock for the
\* step, or the goroutine that holds it already.
C17_FieldsChangeUnderLock ==
    [][\A a \in Accounts :
         (\/ accountState'[a].isActive # accountState[a].isActive
          \/ accountState'[a].lastSync # accountState[a].lastSync
          \/ accountState'[a].client # accountState[a].client) =>
            \/ mu = NoHolder
            \/ \E l \in Loops : mu = l /\ pc[l] = "set" /\ pc'[l] # "set"]_vars

\* C18: a session is created for an account only in a step in which the
\* account has none.
C18_SessionCreatedOnlyWhenAbsent ==
    [][\A a \in Accounts :
         Len(sessions'[a]) > Len(sessions[a]) => accountState[a].client = 0]_vars

\* C19: no poll calls FetchNewEmails or ApplyLabel on a client on which
\* Stop has called Close.
C19_NoRequestOnClosedSession ==
    [][\A l \in Loops :
         (\/ pc[l] = "fetch" /\ pc'[l] # "fetch"
          \/ pc[l] = "rules" /\ cycle'[l].acted) =>
            ~ClientClosed(AcctOf(l))]_vars

\* C20: when Stop has closed the stop channel of an account (the account
\* was active when Stop ran), Stop has returned and every pollAccount
\* goroutine of the account has returned, every client created for the
\* account has been closed.
C20_NoSessionLeftOpen ==
    \A a \in Accounts :
        (/\ accountState[a].stopChan = "closed"
         /\ ~panicked
         /\ \A l \in LoopsOf(a) : pc[l] \in {"none", "done"}) =>
            \A i \in DOMAIN sessions[a] : sessions[a][i] > 0

====
